---------------------------- MODULE Spec2Model ----------------------------
(***************************************************************************)
(* Amber Electric price sensor (homeassistant/components/amberelectric/    *)
(* sensor.py): the AmberCurrentData refresh / sign-in state machine and    *)
(* the platform set-up that registers the sensor.                          *)
(*                                                                         *)
(* Time is counted in minutes from midnight of one fixed day.  A wire      *)
(* timestamp "YYYY-MM-DDTHH:MM:SSZ" of that day is the tuple <<HH, MM>>.   *)
(* JSON values are records that carry their Python type, the keys they     *)
(* hold and the values under those keys.                                   *)
(***************************************************************************)
EXTENDS Integers, Sequences, FiniteSets, TLC

VARIABLES
    now,            \* dt_util.utcnow(), minutes
    username,       \* self._username
    id_token,       \* self._id_token
    refresh_token,  \* self._refresh_token
    data,           \* self._data
    last_updated,   \* self.last_updated
    setup,          \* how setup_platform ended, "none" while it has not run
    requests,       \* requests.post calls issued by the latest update() call
    last,           \* the latest update() call: inputs it consumed, how it ended
    prev_marker,    \* the update() call before the latest got "Token is not valid"
    fetched,        \* period reported by the latest successful fetch
    throttle_last,  \* Throttle: when update last ran through the wrapper
    throttled       \* the latest update() call was skipped by Throttle

vars == <<now, username, id_token, refresh_token, data, last_updated,
          setup, requests, last, prev_marker, fetched, throttle_last, throttled>>

-----------------------------------------------------------------------------
(* Bounds and program constants *)

MaxNow == 70

UPDATE_DUE_MINUTES == 35

\* faulty variant of MIN_TIME_BETWEEN_UPDATES: timedelta(seconds=0)
MIN_TIME_zero == 0 \div 60

\* MIN_TIME_BETWEEN_UPDATES = timedelta(seconds=60), in minutes
MIN_TIME_BETWEEN_UPDATES == 60 \div 60

None == "None"

NoneTime == -1

NoExc == "none"

AUTH_OK == "Authentication successfully."

TOKEN_NOT_VALID == "Token is not valid"

-----------------------------------------------------------------------------
(* JSON values *)

\* Python None / JSON null as the value of _data
NoneData ==
    [type |-> "None", keys |-> {}, currentPriceKWH |-> 0, currentPricePeriod |-> <<>>,
     forecastPrices |-> <<>>]

\* a JSON string where an object was expected
StrData ==
    [type |-> "str", keys |-> {}, currentPriceKWH |-> 0, currentPricePeriod |-> <<>>,
     forecastPrices |-> <<>>]

\* a JSON object; forecastPrices, when held, lists the priceKWH of its entries
DictData(keys, kwh, period) ==
    [type |-> "dict", keys |-> keys, currentPriceKWH |-> kwh, currentPricePeriod |-> period,
     forecastPrices |-> IF "forecastPrices" \in keys THEN <<25, 26>> ELSE <<>>]

\* a well-formed payload with a zero price and the forecast entries in another order
ZeroPriceData ==
    [DictData({"currentPriceKWH", "currentPricePeriod", "forecastPrices"}, 0, <<0, 30>>)
        EXCEPT !.forecastPrices = <<26, 25>>]

\* wire timestamps of the payload: two well-formed, one with minute 60
GoodPeriods == {<<0, 0>>, <<0, 30>>}

BadPeriod == <<0, 60>>

AllKeys == {"currentPriceKWH", "currentPricePeriod", "forecastPrices"}

\* the "data" values a price response may carry
PriceData ==
    {DictData(AllKeys, 27, p) : p \in GoodPeriods}
    \cup {DictData(AllKeys, 27, BadPeriod),
          DictData({"currentPricePeriod"}, 0, <<0, 30>>),
          DictData({"currentPriceKWH"}, 27, <<>>),
          ZeroPriceData,
          StrData,
          NoneData}

PriceBody(type, str, keys, d) ==
    [type |-> type, str |-> str, keys |-> keys, data |-> d]

\* what result.json() of the GetPriceList response can be
PriceBodies ==
    {PriceBody("str", TOKEN_NOT_VALID, {}, NoneData),
     PriceBody("str", "Unauthorized", {}, NoneData),
     PriceBody("invalid", "", {}, NoneData),
     PriceBody("dict", "", {}, NoneData)}
    \cup {PriceBody("dict", "", {"data"}, d) : d \in PriceData}

PriceResponses ==
    {[status |-> "ok", body |-> b] : b \in PriceBodies}
    \cup {[status |-> "RequestException", body |-> PriceBody("invalid", "", {}, NoneData)]}

NoPrice == [status |-> "not_sent", body |-> PriceBody("invalid", "", {}, NoneData)]

TokensObj(type, keys, idt, rt) ==
    [type |-> type, keys |-> keys, idToken |-> idt, refreshToken |-> rt]

NoTokens == TokensObj("None", {}, None, None)

SignInBody(type, keys, message, d) ==
    [type |-> type, keys |-> keys, message |-> message, data |-> d]

TokenPairs == {<<"token", "refresh">>, <<"invalid_token", "refresh_invalid_token">>}

\* what result.json() of the SignIn response can be
SignInBodies ==
    {SignInBody("dict", {"message", "data"}, AUTH_OK,
                TokensObj("dict", {"idToken", "refreshToken"}, p[1], p[2])) : p \in TokenPairs}
    \cup {SignInBody("dict", {"message", "data"}, "Invalid username or password.", NoTokens),
          SignInBody("dict", {"data"}, "",
                     TokensObj("dict", {"idToken", "refreshToken"}, "token", "refresh")),
          SignInBody("dict", {"message"}, AUTH_OK, NoTokens),
          SignInBody("dict", {"message", "data"}, AUTH_OK, NoTokens),
          SignInBody("dict", {"message", "data"}, AUTH_OK,
                     TokensObj("dict", {"refreshToken"}, None, "refresh")),
          SignInBody("dict", {"message", "data"}, AUTH_OK,
                     TokensObj("dict", {"idToken"}, "token", None)),
          SignInBody("invalid", {}, "", NoTokens),
          SignInBody("str", {}, "", NoTokens)}

SignInResponses ==
    {[status |-> "ok", body |-> b] : b \in SignInBodies}
    \cup {[status |-> "RequestException", body |-> SignInBody("invalid", {}, "", NoTokens)]}

NoSignIn == [status |-> "not_sent", body |-> SignInBody("invalid", {}, "", NoTokens)]

-----------------------------------------------------------------------------
(* Python helpers *)

\* obj[key]: the exception the subscript raises, NoExc when it yields a value
Subscript(obj, key) ==
    IF obj.type # "dict" THEN "TypeError"
    ELSE IF key \notin obj.keys THEN "KeyError"
    ELSE NoExc

\* bool(d) for a value held in _data
Truthy(d) ==
    \/ d.type = "str"
    \/ d.type = "dict" /\ d.keys # {}

\* datetime.strptime(str(p), "%Y-%m-%dT%H:%M:%SZ") accepts p
Parseable(p) ==
    /\ Len(p) = 2
    /\ p[1] \in 0..23
    /\ p[2] \in 0..59

\* the parsed instant, in minutes
ParsePeriod(p) == p[1] * 60 + p[2]

\* dt_util.as_utc of a naive datetime
as_utc(t) == t

Times ==
    {t \in 0..MaxNow :
        \/ t = 0
        \/ t = MaxNow
        \/ \E p \in GoodPeriods :
              t \in {ParsePeriod(p) + UPDATE_DUE_MINUTES,
                     ParsePeriod(p) + UPDATE_DUE_MINUTES + 1}}

-----------------------------------------------------------------------------
(* AmberCurrentData *)

\* the object's fields as one value
Self ==
    [username |-> username, id_token |-> id_token, refresh_token |-> refresh_token,
     data |-> data, last_updated |-> last_updated]

\* what a method call leaves behind: the object, the exception it raised
\* and the requests it issued
Ret(s, exc, reqs) == [s |-> s, exc |-> exc, reqs |-> reqs]

\* faulty variant of NewData: last_updated stamped with the time of construction
NewData_stamped ==
    [username |-> "user", id_token |-> None, refresh_token |-> None,
     data |-> NoneData, last_updated |-> 0]

\* AmberCurrentData.__init__
NewData ==
    [username |-> "user", id_token |-> None, refresh_token |-> None,
     data |-> NoneData, last_updated |-> NoneTime]

\* the latest_data property
latest_data(s) == IF Truthy(s.data) THEN s.data ELSE NoneData

SignInRequest(s) ==
    [url |-> "SignIn", username |-> s.username, refreshtoken |-> None, authorization |-> None]

PriceRequest(s) ==
    [url |-> "GetPriceList", username |-> None,
     refreshtoken |-> s.refresh_token, authorization |-> s.id_token]

\* faulty variant of Raise: the handler catches every exception
Raise_all(s, exc, reqs) == Ret([s EXCEPT !.data = NoneData], exc, reqs)

\* the handler "except (KeyError, ValueError)": _data = None, then re-raise;
\* any other exception leaves the handler out
Raise(s, exc, reqs) ==
    IF exc \in {"KeyError", "ValueError"}
    THEN Ret([s EXCEPT !.data = NoneData], exc, reqs)
    ELSE Ret(s, exc, reqs)

\* faulty variant of CantLogin: the username is kept for another try
CantLogin_retry(s) == [s EXCEPT !.id_token = None]

\* _authorize, the branch for a message other than the success message
CantLogin(s) == [s EXCEPT !.id_token = None, !.username = None]

\* _authorize, given the response the SignIn request gets
authorize(s, r) ==
    IF s.username = None THEN Ret(s, NoExc, <<>>)
    ELSE
    LET reqs == <<SignInRequest(s)>>
        body == r.body
        tokens == body.data
        s1 == [s EXCEPT !.id_token = tokens.idToken]
        s2 == [s1 EXCEPT !.refresh_token = tokens.refreshToken]
    IN  IF r.status # "ok" THEN Raise(s, "RequestException", reqs)
        ELSE IF body.type = "invalid" THEN Raise(s, "ValueError", reqs)
        ELSE IF Subscript(body, "message") # NoExc
             THEN Raise(s, Subscript(body, "message"), reqs)
        ELSE IF body.message # AUTH_OK THEN Ret(CantLogin(s), NoExc, reqs)
        ELSE IF Subscript(body, "data") # NoExc
             THEN Raise(s, Subscript(body, "data"), reqs)
        ELSE IF Subscript(tokens, "idToken") # NoExc
             THEN Raise(s, Subscript(tokens, "idToken"), reqs)
        ELSE IF Subscript(tokens, "refreshToken") # NoExc
             THEN Raise(s1, Subscript(tokens, "refreshToken"), reqs)
        ELSE Ret(s2, NoExc, reqs)

\* faulty variant of should_update: due from the 35th minute on, not after it
should_update_ge(s, t) ==
    IF s.last_updated = NoneTime THEN TRUE
    ELSE t >= s.last_updated + UPDATE_DUE_MINUTES

\* should_update, at clock reading t
should_update(s, t) ==
    IF s.last_updated = NoneTime THEN TRUE
    ELSE t > s.last_updated + UPDATE_DUE_MINUTES

\* faulty variant of SkipUpdate: the early return is missing
SkipUpdate_never(s, t) == FALSE

\* update: the early return when no update is due
SkipUpdate(s, t) == ~should_update(s, t)

\* faulty variant of WipeToken: the rejected token is kept
WipeToken_kept(s) == s

\* update: the branch for the body "Token is not valid"
WipeToken(s) == [s EXCEPT !.id_token = None]

\* update: last_updated from the stored payload's currentPricePeriod
SetLastUpdated(s, t) ==
    [s EXCEPT !.last_updated = as_utc(ParsePeriod(s.data.currentPricePeriod))]

\* faulty variant of StoreData: only the current-price fields are kept
StoreData_current(s, d) ==
    [s EXCEPT !.data = [d EXCEPT !.forecastPrices = <<>>]]

\* update: _data = result_json["data"]
StoreData(s, d) == [s EXCEPT !.data = d]

\* update, from the price request on, given the response it gets at clock reading t
fetch(s, r, t, sent) ==
    LET reqs == Append(sent, PriceRequest(s))
        body == r.body
        s1 == StoreData(s, body.data)
    IN  IF r.status # "ok" THEN Raise(s, "RequestException", reqs)
        ELSE IF body.type = "invalid" THEN Raise(s, "ValueError", reqs)
        ELSE IF body.type = "str" /\ body.str = TOKEN_NOT_VALID
             THEN Ret(WipeToken(s), NoExc, reqs)
        ELSE IF Subscript(body, "data") # NoExc
             THEN Raise(s, Subscript(body, "data"), reqs)
        ELSE IF Subscript(s1.data, "currentPricePeriod") # NoExc
             THEN Raise(s1, Subscript(s1.data, "currentPricePeriod"), reqs)
        ELSE IF ~Parseable(s1.data.currentPricePeriod)
             THEN Raise(s1, "ValueError", reqs)
        ELSE Ret(SetLastUpdated(s1, t), NoExc, reqs)

\* faulty variant of NeedsAuthorize: every due update signs in
NeedsAuthorize_always(s) == TRUE

\* update: the test that leads to _authorize
NeedsAuthorize(s) == s.id_token = None

\* faulty variant of update: a rejected token is renewed and the fetch
\* repeated within the same call
update_retry(s, t, sr, pr) ==
    IF SkipUpdate(s, t) THEN Ret(s, NoExc, <<>>)
    ELSE
    LET a == IF NeedsAuthorize(s) THEN authorize(s, sr) ELSE Ret(s, NoExc, <<>>)
        f == fetch(a.s, pr, t, a.reqs)
        a2 == authorize(f.s, sr)
    IN  IF a.exc # NoExc THEN a
        ELSE IF a.s.id_token = None THEN a
        ELSE IF f.exc = NoExc /\ f.s.id_token = None /\ a2.exc = NoExc /\ a2.s.id_token # None
        THEN fetch(a2.s, pr, t, f.reqs \o a2.reqs)
        ELSE f

\* the body of update (update.__wrapped__) at clock reading t; sr and pr are
\* the responses the SignIn and GetPriceList requests get if they are issued
update(s, t, sr, pr) ==
    IF SkipUpdate(s, t) THEN Ret(s, NoExc, <<>>)
    ELSE
    LET a == IF NeedsAuthorize(s) THEN authorize(s, sr) ELSE Ret(s, NoExc, <<>>)
    IN  IF a.exc # NoExc THEN a
        ELSE IF a.s.id_token = None THEN a
        ELSE fetch(a.s, pr, t, a.reqs)

\* the value a property of the sensor yields, or the exception it raises
Value(v) == [exc |-> NoExc, none |-> FALSE, value |-> v]

\* a property yields None: the host shows the state as unknown
NoValue == [exc |-> NoExc, none |-> TRUE, value |-> 0]

Raises(exc) == [exc |-> exc, none |-> FALSE, value |-> 0]

\* AmberCurrentSensor.state_attributes
state_attributes(s) == s.data

\* AmberCurrentSensor.state
state(s) ==
    IF Truthy(s.data)
    THEN IF Subscript(s.data, "currentPriceKWH") # NoExc
         THEN Raises(Subscript(s.data, "currentPriceKWH"))
         ELSE Value(s.data.currentPriceKWH)
    ELSE NoValue

-----------------------------------------------------------------------------
(* History of the latest call *)

Sent(reqs, url) == \E i \in 1..Len(reqs) : reqs[i].url = url

\* the record of one executed update call
CallRecord(s, t, sr, pr, res, by) ==
    [called |-> TRUE,
     by |-> by,
     at |-> t,
     due |-> should_update(s, t),
     signin |-> IF Sent(res.reqs, "SignIn") THEN sr ELSE NoSignIn,
     price |-> IF Sent(res.reqs, "GetPriceList") THEN pr ELSE NoPrice,
     exc |-> res.exc]

NoCall ==
    [called |-> FALSE, by |-> "none", at |-> NoneTime, due |-> FALSE,
     signin |-> NoSignIn, price |-> NoPrice, exc |-> NoExc]

IsMarker(r) ==
    r.status = "ok" /\ r.body.type = "str" /\ r.body.str = TOKEN_NOT_VALID

\* the call stored a reading and set last_updated
Succeeded(res) == res.exc = NoExc /\ Sent(res.reqs, "GetPriceList") /\ res.s.id_token # None

\* the effect of one executed call on the variables
Apply(s, t, sr, pr, res, by) ==
    /\ username' = res.s.username
    /\ id_token' = res.s.id_token
    /\ refresh_token' = res.s.refresh_token
    /\ data' = res.s.data
    /\ last_updated' = res.s.last_updated
    /\ requests' = res.reqs
    /\ last' = CallRecord(s, t, sr, pr, res, by)
    /\ prev_marker' = (last.called /\ IsMarker(last.price))
    /\ fetched' = IF Succeeded(res) /\ ~IsMarker(pr)
                  THEN ParsePeriod(pr.body.data.currentPricePeriod)
                  ELSE fetched
    /\ throttled' = FALSE
    /\ UNCHANGED now

\* Throttle(MIN_TIME_BETWEEN_UPDATES): a call made at t, when the wrapped
\* method last ran at tl, returns without running it
ThrottleSkips(tl, t) ==
    /\ tl # NoneTime
    /\ t - tl < MIN_TIME_BETWEEN_UPDATES

-----------------------------------------------------------------------------
(* Actions *)

Init ==
    /\ now = 0
    /\ username = NewData.username
    /\ id_token = NewData.id_token
    /\ refresh_token = NewData.refresh_token
    /\ data = NewData.data
    /\ last_updated = NewData.last_updated
    /\ setup = "none"
    /\ requests = <<>>
    /\ last = NoCall
    /\ prev_marker = FALSE
    /\ fetched = NoneTime
    /\ throttle_last = NoneTime
    /\ throttled = FALSE

\* how setup_platform ends, given how its update() call ended
SetupOutcome(exc) ==
    IF exc = "ValueError" THEN "error_logged"
    ELSE IF exc = NoExc THEN "added"
    ELSE "raised"

\* setup_platform: the first update() of a new object, then add_entities
setup_platform ==
    /\ setup = "none"
    /\ ~last.called
    /\ \E sr \in SignInResponses, pr \in PriceResponses :
          LET res == update(Self, now, sr, pr)
          IN  /\ Apply(Self, now, sr, pr, res, "setup_platform")
              /\ setup' = SetupOutcome(res.exc)
              /\ throttle_last' = now

\* AmberCurrentSensor.update: the host polls the registered sensor
SensorUpdate ==
    /\ setup = "added"
    /\ ~ThrottleSkips(throttle_last, now)
    /\ \E sr \in SignInResponses, pr \in PriceResponses :
          LET res == update(Self, now, sr, pr)
          IN  /\ Apply(Self, now, sr, pr, res, "sensor")
              /\ throttle_last' = now
              /\ UNCHANGED setup

\* AmberCurrentSensor.update while Throttle holds the call back: the body
\* of update does not run
SensorUpdateThrottled ==
    /\ setup = "added"
    /\ ThrottleSkips(throttle_last, now)
    /\ requests' = <<>>
    /\ throttled' = TRUE
    /\ UNCHANGED <<now, username, id_token, refresh_token, data, last_updated,
                   setup, last, prev_marker, fetched, throttle_last>>

\* AmberCurrentData.update called on an object no platform set up
\* (update.__wrapped__, as the tests call it: Throttle is bypassed)
DataUpdate ==
    /\ setup = "none"
    /\ \E sr \in SignInResponses, pr \in PriceResponses :
          LET res == update(Self, now, sr, pr)
          IN  /\ Apply(Self, now, sr, pr, res, "direct")
              /\ UNCHANGED <<setup, throttle_last>>

\* the clock moves on
Tick ==
    /\ \E t \in Times : t > now /\ now' = t
    /\ UNCHANGED <<username, id_token, refresh_token, data, last_updated,
                   setup, requests, last, prev_marker, fetched, throttle_last, throttled>>

Next ==
    \/ setup_platform
    \/ SensorUpdate
    \/ SensorUpdateThrottled
    \/ DataUpdate
    \/ Tick

Spec == Init /\ [][Next]_vars

-----------------------------------------------------------------------------
(* Shapes of the responses *)

\* the SignIn response carries the success message and both tokens
SignInOk(r) ==
    /\ r.status = "ok"
    /\ r.body.type = "dict"
    /\ {"message", "data"} \subseteq r.body.keys
    /\ r.body.message = AUTH_OK
    /\ r.body.data.type = "dict"
    /\ {"idToken", "refreshToken"} \subseteq r.body.data.keys

\* a SignIn response arrived and is not the success response
SignInFailed(r) == r.status = "ok" /\ ~SignInOk(r)

\* the SignIn response carries a message other than the success message
Rejected(r) ==
    /\ r.status = "ok"
    /\ r.body.type = "dict"
    /\ "message" \in r.body.keys
    /\ r.body.message # AUTH_OK

\* the GetPriceList response is an object whose data holds every expected
\* key and a parseable currentPricePeriod
WellFormed(r) ==
    /\ r.status = "ok"
    /\ r.body.type = "dict"
    /\ "data" \in r.body.keys
    /\ r.body.data.type = "dict"
    /\ AllKeys \subseteq r.body.data.keys
    /\ Parseable(r.body.data.currentPricePeriod)

\* a GetPriceList response arrived, neither the marker nor well-formed
Malformed(r) == r.status = "ok" /\ ~IsMarker(r) /\ ~WellFormed(r)

\* a step in which the body of update ran
ExecutedCall == now' = now /\ last'.called /\ ~throttled'

-----------------------------------------------------------------------------
(* Claims *)

\* C1: between calls the access token and the refresh token are both
\* present or both absent.
C1_TokensBothOrNeither == (id_token = None) <=> (refresh_token = None)

\* C2: a refresh whose price response is exactly "Token is not valid"
\* returns normally with both tokens cleared and latest_reading absent.
C2_MarkerClearsAll ==
    (last.called /\ IsMarker(last.price)) =>
        /\ last.exc = NoExc
        /\ id_token = None
        /\ refresh_token = None
        /\ ~Truthy(data)

\* C3: the executed refresh that follows a refresh that got the invalid-token
\* marker is due and issues the sign-in request first; if that sign-in
\* succeeds it goes on to the price request, and if the price response is
\* well-formed it returns with latest_reading holding that payload's data.
\* (A call that Throttle holds back is not an executed refresh.)
C3_RecoveryAfterRejection ==
    (prev_marker /\ ~throttled) =>
        /\ last.due
        /\ Len(requests) >= 1
        /\ requests[1].url = "SignIn"
        /\ SignInOk(last.signin) =>
              /\ Len(requests) = 2
              /\ requests[2].url = "GetPriceList"
              /\ WellFormed(last.price) =>
                    /\ last.exc = NoExc
                    /\ latest_data(Self) = last.price.body.data
                    /\ Truthy(data)

\* C3 witness: a refresh after a rejection signed in again and stored data.
C3_Witness ==
    /\ prev_marker
    /\ SignInOk(last.signin)
    /\ WellFormed(last.price)
    /\ data = last.price.body.data

\* C4: a sign-in failure of any shape is handled inside refresh: the call
\* returns normally, the credentials end up absent, and set-up registers the
\* sensor, which reads unknown.
C4_SignInFailureHandled ==
    (last.called /\ SignInFailed(last.signin)) =>
        /\ last.exc = NoExc
        /\ id_token = None
        /\ refresh_token = None
        /\ last.by = "setup_platform" => (setup = "added" /\ state(Self) = NoValue)

\* C5: a refresh whose sign-in fails leaves latest_reading as it was and
\* issues no price request.
C5_SignInFailureKeepsReading ==
    [][(now' = now /\ last'.called /\ SignInFailed(last'.signin)) =>
          (data' = data /\ ~Sent(requests', "GetPriceList"))]_vars

\* C6: a price response that is neither the marker nor well-formed ends the
\* refresh with latest_reading absent and a failure raised to the caller.
C6_MalformedClearsAndRaises ==
    (last.called /\ Malformed(last.price)) =>
        /\ ~Truthy(data)
        /\ last.exc # NoExc

C9_NotDueIsNoOp ==
    [][(now' = now /\ ~should_update(Self, now)) =>
          /\ requests' = <<>>
          /\ UNCHANGED <<username, id_token, refresh_token, data, last_updated>>]_vars

\* C9 witness: a refresh was called while not due, with a reading held.
C9_Witness ==
    /\ last.called
    /\ ~last.due
    /\ Truthy(data)
    /\ requests = <<>>

\* C10: whenever latest_reading is present, last_updated is the parsed
\* currentPricePeriod of that reading.
C10_LastUpdatedFromPayload ==
    Truthy(data) =>
        /\ data.type = "dict"
        /\ "currentPricePeriod" \in data.keys
        /\ Parseable(data.currentPricePeriod)
        /\ last_updated = ParsePeriod(data.currentPricePeriod)

\* C11: after a fetch of a well-formed payload, latest_reading and the
\* sensor's attribute mapping equal the payload's data, field by field and
\* with the forecast entries in the received order, and the sensor state is
\* the payload's currentPriceKWH.
C11_ReadingEqualsPayload ==
    (last.called /\ WellFormed(last.price)) =>
        /\ last.exc = NoExc
        /\ latest_data(Self) = last.price.body.data
        /\ state_attributes(Self) = last.price.body.data
        /\ state_attributes(Self).forecastPrices = last.price.body.data.forecastPrices
        /\ state(Self) = Value(last.price.body.data.currentPriceKWH)

\* C11 witness: a payload with several forecast entries was fetched and is
\* what the sensor exposes.
C11_Witness ==
    /\ last.called
    /\ WellFormed(last.price)
    /\ Len(data.forecastPrices) = 2
    /\ data = ZeroPriceData

\* C12: a refresh that starts with the access token present issues no
\* sign-in request; the request it issues carries the tokens as they were,
\* and the call leaves the refresh token alone and the access token either
\* as it was or wiped.
C12_NoSignInWhileAuthenticated ==
    [][(now' = now /\ id_token # None) =>
          /\ ~Sent(requests', "SignIn")
          /\ requests' # <<>> =>
                /\ requests'[1].authorization = id_token
                /\ requests'[1].refreshtoken = refresh_token
          /\ refresh_token' = refresh_token
          /\ id_token' \in {id_token, None}]_vars

\* C12 witness: a refresh went straight to the price request.
C12_Witness ==
    /\ last.called
    /\ last.signin = NoSignIn
    /\ requests # <<>>
    /\ requests[1].url = "GetPriceList"

C14_StateUnknownIffAbsent ==
    /\ (state(Self) = NoValue) <=> (latest_data(Self) = NoneData)
    /\ latest_data(Self) # NoneData => state(Self) = Value(data.currentPriceKWH)

\* number of requests to url among reqs
Count(reqs, url) == Cardinality({i \in 1..Len(reqs) : reqs[i].url = url})

\* C15: one refresh call issues at most one sign-in request and at most one
\* price request, and when it issues both the sign-in request comes first.
C15_NoRetryInOneCall ==
    /\ Count(requests, "SignIn") <= 1
    /\ Count(requests, "GetPriceList") <= 1
    /\ Len(requests) = 2 => (requests[1].url = "SignIn" /\ requests[2].url = "GetPriceList")

\* C15 witness: a call signed in, got the invalid-token marker and stopped.
C15_Witness ==
    /\ last.called
    /\ ~throttled
    /\ Len(requests) = 2
    /\ IsMarker(last.price)
    /\ id_token = None

\* C16: no price request is issued with the access token or the refresh
\* token absent.
C16_PriceRequestCarriesTokens ==
    \A i \in 1..Len(requests) :
        requests[i].url = "GetPriceList" =>
            /\ requests[i].authorization # None
            /\ requests[i].refreshtoken # None

\* C17 (as stated): a network error on either request is raised to the
\* caller and leaves the tokens, latest_reading and last_updated as they were
\* before the call.
C17_NetworkErrorChangesNothing ==
    [][(ExecutedCall /\ "RequestException" \in {last'.signin.status, last'.price.status}) =>
          /\ last'.exc = "RequestException"
          /\ UNCHANGED <<id_token, refresh_token, data, last_updated>>]_vars

\* C17 (amended): a network error on either request is raised to the caller
\* and leaves latest_reading and last_updated as they were before the call;
\* the tokens are as before too, unless the sign-in of the same call had
\* succeeded, whose tokens are then held.
C17_NetworkErrorKeepsReading ==
    [][(ExecutedCall /\ "RequestException" \in {last'.signin.status, last'.price.status}) =>
          /\ last'.exc = "RequestException"
          /\ UNCHANGED <<username, data, last_updated>>
          /\ IF SignInOk(last'.signin)
             THEN /\ id_token' = last'.signin.body.data.idToken
                  /\ refresh_token' = last'.signin.body.data.refreshToken
             ELSE UNCHANGED <<id_token, refresh_token>>]_vars

\* C17 witness: the price request failed in transport and the reading held
\* before is still there.
C17_Witness ==
    /\ last.called
    /\ ~throttled
    /\ last.price.status = "RequestException"
    /\ last.exc = "RequestException"
    /\ Truthy(data)
    /\ last_updated # NoneTime

\* C18: with a clock that never goes back, whenever latest_reading is absent
\* should_update is true now and at every later time.
C18_GateOpenWhileAbsent ==
    ~Truthy(data) =>
        \A t \in now..(MaxNow + 1) : should_update(Self, t)

\* C18 witness: a reading was fetched once, a later refresh cleared it.
C18_Witness ==
    /\ ~Truthy(data)
    /\ last_updated # NoneTime
    /\ last.called
    /\ last.exc # NoExc

\* C19: through the Throttle wrapper the body of update runs at most once per
\* 60 seconds: a call less than 60 seconds after the call that last ran
\* issues no request and changes nothing, so a sign-in that follows a token
\* rejection comes no sooner than 60 seconds after the rejected call.
C19_InvocationSpacing ==
    [][(now' = now /\ setup = "added") =>
          /\ now - last.at < 60 \div 60 =>
                /\ throttled'
                /\ requests' = <<>>
                /\ UNCHANGED <<username, id_token, refresh_token, data, last_updated, last>>
          /\ (IsMarker(last.price) /\ Sent(requests', "SignIn")) =>
                now - last.at >= 60 \div 60]_vars

\* C19 witness: a poll right after a token rejection was held back, no
\* sign-in yet.
C19_Witness ==
    /\ throttled
    /\ IsMarker(last.price)
    /\ id_token = None
    /\ username # None
    /\ requests = <<>>

=============================================================================
